---- MODULE Spec2Model ----
(***************************************************************************)
(* A model of fillpdf, a Go binding around the pdftk command line tool:    *)
(* the FDF data file encoder (createFdfFile, EncodeUTF16) and the          *)
(* operations that run pdftk in a scratch directory (Fill, FillPDFToBytes, *)
(* Multistamp, Merge), in the revisions the repository holds.              *)
(*                                                                         *)
(* A Go string is a sequence of bytes (0..255) holding UTF-8.              *)
(***************************************************************************)
EXTENDS Integers, Sequences, FiniteSets, TLC

VARIABLES
    \* ---- EncodeUTF16 called on its own
    s,              \* the string argument
    addBom,         \* the addBom argument
    bytes,          \* the returned byte slice
    encPc,          \* "ready" before the call, "done" after it
    \* ---- createFdfFile called on its own
    form,           \* the Form argument: field name -> value
    checkedString,  \* label written for true
    uncheckedString,\* label written for false
    fdfRev,         \* which revision of createFdfFile is called
    written,        \* the <<key, valStr>> pairs of the loop, in iteration order
    fdfFile,        \* the file at path: [exists, data]
    fdfErr,         \* the error createFdfFile returned ("nil" or an error kind)
    fdfPc,          \* "ready" before the call, "done" after it
    \* ---- the operations that run pdftk
    tool,           \* whether pdftk is on the search path
    files,          \* the caller's files: path -> [exists, data]
    files0,         \* files as they were before any call (history)
    tmp,            \* the ioutil.TempDir directory of each call: [exists, fdf, out]
    work,           \* the data file of each FillPDFToBytes call in the caller's tmpDir
    pc,             \* where each call stands
    op,             \* the operation each call runs
    arg,            \* its arguments
    loc,            \* its local variables: [i, args]
    ret,            \* what it returned: [err, val]
    hist            \* what happened during the call (history)

encVars == <<s, addBom, bytes, encPc>>
fdfVars == <<form, checkedString, uncheckedString, fdfRev, written, fdfFile, fdfErr, fdfPc>>
procVars == <<tool, files, files0, tmp, work, pc, op, arg, loc, ret, hist>>
vars == <<encVars, fdfVars, procVars>>

----------------------------------------------------------------------------
(* Bounds *)

\* longest argument of EncodeUTF16, in characters
MaxStrLen == 2
\* most entries of a Form
MaxFields == 2
\* calls that may run at the same time
NumCalls == 2
\* longest standard-error text of pdftk, in characters
MaxErrLen == 1
\* most input files of a Merge call
MaxMergeFiles == 2

----------------------------------------------------------------------------
(* Sequence helpers *)

RECURSIVE Flatten(_)
Flatten(ss) == IF ss = <<>> THEN <<>> ELSE Head(ss) \o Flatten(Tail(ss))

RECURSIVE SeqsUpTo(_, _)
SeqsUpTo(S, n) ==
    IF n = 0 THEN {<<>>}
    ELSE LET shorter == SeqsUpTo(S, n - 1)
         IN  shorter \cup {Append(q, x) : q \in {r \in shorter : Len(r) = n - 1}, x \in S}

----------------------------------------------------------------------------
(* []rune(s): the UTF-8 decoding the Go conversion performs.  An ill-formed *)
(* byte decodes to U+FFFD and consumes one byte.                            *)

IsCont(b) == b >= 128 /\ b <= 191

\* <<rune, width>> of the encoding that starts at s[i]
DecodeRune(str, i) ==
    LET n  == Len(str) - i + 1
        b0 == str[i]
    IN  IF b0 < 128 THEN <<b0, 1>>
        ELSE IF b0 >= 194 /\ b0 <= 223 /\ n >= 2 /\ IsCont(str[i + 1])
            THEN <<(b0 - 192) * 64 + (str[i + 1] - 128), 2>>
        ELSE IF b0 >= 224 /\ b0 <= 239 /\ n >= 3
                /\ str[i + 1] >= (IF b0 = 224 THEN 160 ELSE 128)
                /\ str[i + 1] <= (IF b0 = 237 THEN 159 ELSE 191)
                /\ IsCont(str[i + 2])
            THEN <<(b0 - 224) * 4096 + (str[i + 1] - 128) * 64 + (str[i + 2] - 128), 3>>
        ELSE IF b0 >= 240 /\ b0 <= 244 /\ n >= 4
                /\ str[i + 1] >= (IF b0 = 240 THEN 144 ELSE 128)
                /\ str[i + 1] <= (IF b0 = 244 THEN 143 ELSE 191)
                /\ IsCont(str[i + 2]) /\ IsCont(str[i + 3])
            THEN <<(b0 - 240) * 262144 + (str[i + 1] - 128) * 4096
                     + (str[i + 2] - 128) * 64 + (str[i + 3] - 128), 4>>
        ELSE <<65533, 1>>

RECURSIVE RunesFrom(_, _)
RunesFrom(str, i) ==
    IF i > Len(str) THEN <<>>
    ELSE LET d == DecodeRune(str, i) IN <<d[1]>> \o RunesFrom(str, i + d[2])

StringToRunes(str) == RunesFrom(str, 1)

----------------------------------------------------------------------------
(* utf16.Encode: one 16-bit unit per rune of the basic plane, a surrogate   *)
(* pair per rune above U+FFFF, U+FFFD for a surrogate or out-of-range rune. *)

\* (a UCS-2 encoder: the rune cut to 16 bits, no surrogate pair)
Utf16EncodeRuneUcs2(r) == <<r % 65536>>

Utf16EncodeRune(r) ==
    IF (r >= 0 /\ r < 55296) \/ (r >= 57344 /\ r < 65536) THEN <<r>>
    ELSE IF r >= 65536 /\ r <= 1114111
        THEN <<55296 + (((r - 65536) \div 1024) % 1024),
               56320 + ((r - 65536) % 1024)>>
    ELSE <<65533>>

RECURSIVE Utf16Encode(_)
Utf16Encode(r) ==
    IF r = <<>> THEN <<>> ELSE Utf16EncodeRune(Head(r)) \o Utf16Encode(Tail(r))

\* binary.BigEndian.PutUint16
PutUint16BE(i) == <<(i \div 256) % 256, i % 256>>

RECURSIVE UnitsToBytes(_)
UnitsToBytes(units) ==
    IF units = <<>> THEN <<>>
    ELSE PutUint16BE(Head(units)) \o UnitsToBytes(Tail(units))

\* the byte-order mark EncodeUTF16 starts with when addBom is set
Bom == <<254, 255>>

EncodeUTF16(str, bom) ==
    (IF bom THEN Bom ELSE <<>>) \o UnitsToBytes(Utf16Encode(StringToRunes(str)))

----------------------------------------------------------------------------
(* Arguments of EncodeUTF16: strings of at most MaxStrLen characters, each  *)
(* the UTF-8 encoding of U+0041, U+00E9, U+20AC, U+FFFF, U+10000, U+1F600   *)
(* or U+10FFFF, or an ill-formed sequence (a stray byte 0xFF, an encoded    *)
(* surrogate U+D800).                                                       *)

TextChars ==
    { <<65>>, <<195, 169>>, <<226, 130, 172>>, <<239, 191, 191>>,
      <<240, 144, 128, 128>>, <<240, 159, 152, 128>>, <<244, 143, 191, 191>> }

IllFormedChars == { <<255>>, <<237, 160, 128>> }

TextStrings == { Flatten(cs) : cs \in SeqsUpTo(TextChars, MaxStrLen) }

GoStrings == { Flatten(cs) : cs \in SeqsUpTo(TextChars \cup IllFormedChars, MaxStrLen) }

EncInit ==
    /\ s \in GoStrings
    /\ addBom \in BOOLEAN
    /\ bytes = <<>>
    /\ encPc = "ready"

EncodeUTF16Call ==
    /\ encPc = "ready"
    /\ bytes' = EncodeUTF16(s, addBom)
    /\ encPc' = "done"
    /\ UNCHANGED <<s, addBom>>

----------------------------------------------------------------------------
(* createFdfFile *)

FdfHeader ==
    <<37, 70, 68, 70, 45, 49, 46, 50, 10>> \o               \* %FDF-1.2\n
    <<226, 227, 207, 211, 10>> \o                           \* \xE2\xE3\xCF\xD3\n
    <<49, 32, 48, 32, 111, 98, 106, 32, 10>> \o             \* 1 0 obj \n
    <<60, 60, 10>> \o                                       \* <<\n
    <<47, 70, 68, 70, 32, 10>> \o                           \* /FDF \n
    <<60, 60, 10>> \o                                       \* <<\n
    <<47, 70, 105, 101, 108, 100, 115, 32, 91, 10>>         \* /Fields [\n

FdfFooter ==
    <<93, 10>> \o                                           \* ]\n
    <<62, 62, 10>> \o                                       \* >>\n
    <<62, 62, 10>> \o                                       \* >>\n
    <<101, 110, 100, 111, 98, 106, 32, 10>> \o              \* endobj \n
    <<116, 114, 97, 105, 108, 101, 114, 10>> \o             \* trailer\n
    <<10>> \o                                               \* \n
    <<60, 60, 10>> \o                                       \* <<\n
    <<47, 82, 111, 111, 116, 32, 49, 32, 48, 32, 82, 10>> \o \* /Root 1 0 R\n
    <<62, 62, 10>> \o                                       \* >>\n
    <<37, 37, 69, 79, 70, 10>>                              \* %%EOF\n

RecOpen  == <<60, 60, 10>> \o <<47, 84, 32, 40>>            \* <<\n/T (
RecMid   == <<41, 10>> \o <<47, 86, 32, 40>>                \* )\n/V (
RecClose == <<41, 10>> \o <<62, 62, 10>>                    \* )\n>>\n

\* strconv decimal form, as fmt prints an int under %v
RECURSIVE FormatUint(_)
FormatUint(n) ==
    IF n < 10 THEN <<48 + n>> ELSE FormatUint(n \div 10) \o <<48 + (n % 10)>>

FormatInt(n) == IF n < 0 THEN <<45>> \o FormatUint(0 - n) ELSE FormatUint(n)

\* fmt.Sprintf("%v", value) for the value kinds of the model
SprintfV(value) == IF value.t = "string" THEN value.s ELSE FormatInt(value.n)

\* (the switch taken on the printed text instead of the dynamic type)
ValStrByText(value, checked, unchecked) ==
    IF value.t = "bool"
    THEN (IF value.b THEN checked ELSE unchecked)
    ELSE IF SprintfV(value) = <<116, 114, 117, 101>> THEN checked
    ELSE IF SprintfV(value) = <<102, 97, 108, 115, 101>> THEN unchecked
    ELSE SprintfV(value)

\* the type switch of the loop body
ValStr(value, checked, unchecked) ==
    IF value.t = "bool"
    THEN (IF value.b THEN checked ELSE unchecked)
    ELSE SprintfV(value)

\* (one mark per record instead of one per string)
FdfRecordOneMark(key, txt) ==
    RecOpen \o EncodeUTF16(key, TRUE) \o RecMid \o EncodeUTF16(txt, FALSE) \o RecClose

FdfRecord(key, txt) ==
    RecOpen \o EncodeUTF16(key, TRUE) \o RecMid \o EncodeUTF16(txt, TRUE) \o RecClose

\* the pairs the loop produces when the map is ranged over in this order
LoopPairs(f, order, checked, unchecked) ==
    [i \in 1..Len(order) |-> <<order[i], ValStr(f[order[i]], checked, unchecked)>>]

\* everything written to the bufio.Writer before Flush
FdfContent(pairs) ==
    FdfHeader \o Flatten([i \in 1..Len(pairs) |-> FdfRecord(pairs[i][1], pairs[i][2])])
              \o FdfFooter

(* The earlier revision: fixed labels Yes and Off, and iconv("utf-16") for  *)
(* the strings, whose byte order (and mark) is the platform's; a failed     *)
(* iconv.Open yields the empty string.                                      *)

LabelYes == <<89, 101, 115>>
LabelOff == <<79, 102, 102>>

ValStrLegacy(value) ==
    IF value.t = "bool"
    THEN (IF value.b THEN LabelYes ELSE LabelOff)
    ELSE SprintfV(value)

RECURSIVE SwapPairs(_)
SwapPairs(b) ==
    IF Len(b) < 2 THEN b ELSE <<b[2], b[1]>> \o SwapPairs(SubSeq(b, 3, Len(b)))

toUTF16(input, iconv) ==
    IF iconv = "openFails" THEN <<>>
    ELSE IF iconv = "BE" THEN EncodeUTF16(input, TRUE)
    ELSE SwapPairs(EncodeUTF16(input, TRUE))

LoopPairsLegacy(f, order) ==
    [i \in 1..Len(order) |-> <<order[i], ValStrLegacy(f[order[i]])>>]

FdfRecordLegacy(key, txt, iconv) ==
    RecOpen \o toUTF16(key, iconv) \o RecMid \o toUTF16(txt, iconv) \o RecClose

FdfContentLegacy(pairs, iconv) ==
    FdfHeader
      \o Flatten([i \in 1..Len(pairs) |-> FdfRecordLegacy(pairs[i][1], pairs[i][2], iconv)])
      \o FdfFooter

\* the orders a range over a map with these keys can take
Perms(S) == { q \in [1..Cardinality(S) -> S] : \A x \in S : \E i \in DOMAIN q : q[i] = x }

NoFile == [exists |-> FALSE, data |-> <<>>]
FileOf(data) == [exists |-> TRUE, data |-> data]

\* what a failed Flush can leave in the file: nothing, the header, all but a byte
ShortWrites(data) ==
    { SubSeq(data, 1, k) : k \in {0, Len(FdfHeader), Len(data) - 1} }

(* Arguments of createFdfFile: field names n, e-acute and U+1F600; values   *)
(* true, false, the strings "true", "Ann" and U+1F600, the ints 42 and -7;  *)
(* labels Yes, Off, true.                                                   *)

FieldNames == { <<110>>, <<195, 169>>, <<240, 159, 152, 128>> }

FieldValues ==
    { [t |-> "bool", b |-> TRUE], [t |-> "bool", b |-> FALSE],
      [t |-> "string", s |-> <<116, 114, 117, 101>>],
      [t |-> "string", s |-> <<65, 110, 110>>],
      [t |-> "string", s |-> <<240, 159, 152, 128>>],
      [t |-> "int", n |-> 42], [t |-> "int", n |-> 0 - 7] }

Labels == { LabelYes, LabelOff, <<116, 114, 117, 101>> }

Forms ==
    UNION { [K -> FieldValues] : K \in { K \in SUBSET FieldNames : Cardinality(K) <= MaxFields } }

FdfInit ==
    /\ form \in Forms
    /\ checkedString \in Labels
    /\ uncheckedString \in Labels
    /\ fdfRev \in {"current", "legacy"}
    /\ written = <<>>
    /\ fdfFile = NoFile
    /\ fdfErr = "nil"
    /\ fdfPc = "ready"

\* the body of createFdfFile, given the pairs of the loop and the file bytes
CreateFdfOutcome(pairs, data) ==
    /\ \/ /\ fdfFile' = NoFile                     \* os.Create fails
          /\ fdfErr' = "IOFailure"
          /\ written' = <<>>
       \/ /\ fdfFile' = FileOf(data)               \* Flush succeeds
          /\ fdfErr' = "nil"
          /\ written' = pairs
       \/ \E part \in ShortWrites(data) :          \* Flush fails
            /\ fdfFile' = FileOf(part)
            /\ fdfErr' = "IOFailure"
            /\ written' = pairs
    /\ fdfPc' = "done"
    /\ UNCHANGED <<form, checkedString, uncheckedString, fdfRev>>

CreateFdfFileCall ==
    /\ fdfPc = "ready"
    /\ fdfRev = "current"
    /\ \E order \in Perms(DOMAIN form) :
         LET pairs == LoopPairs(form, order, checkedString, uncheckedString)
         IN  CreateFdfOutcome(pairs, FdfContent(pairs))

CreateFdfFileLegacyCall ==
    /\ fdfPc = "ready"
    /\ fdfRev = "legacy"
    /\ \E order \in Perms(DOMAIN form), iconv \in {"BE", "LE", "openFails"} :
         LET pairs == LoopPairsLegacy(form, order)
         IN  CreateFdfOutcome(pairs, FdfContentLegacy(pairs, iconv))

----------------------------------------------------------------------------
(* Errors and results *)

MkErr(kind, msg) == [kind |-> kind, msg |-> msg]
NilErr == MkErr("nil", <<>>)
NilVal == [nil |-> TRUE, data |-> <<>>]
ValOf(data) == [nil |-> FALSE, data |-> data]

\* strings.TrimSpace, on ASCII
IsSpace(b) == b \in {9, 10, 11, 12, 13, 32}

RECURSIVE TrimLeft(_)
TrimLeft(txt) == IF txt # <<>> /\ IsSpace(txt[1]) THEN TrimLeft(Tail(txt)) ELSE txt

RECURSIVE TrimRight(_)
TrimRight(txt) ==
    IF txt # <<>> /\ IsSpace(txt[Len(txt)])
    THEN TrimRight(SubSeq(txt, 1, Len(txt) - 1)) ELSE txt

TrimSpace(txt) == TrimRight(TrimLeft(txt))

(* fmt.Errorf(format) with no operands: the text is copied up to a '%';    *)
(* after it flags, width and precision are skipped; "%%" prints '%', a verb *)
(* prints %!verb(MISSING), and a format that ends there prints %!(NOVERB).  *)

RECURSIVE SkipWhile(_, _, _)
SkipWhile(f, i, S) == IF i <= Len(f) /\ f[i] \in S THEN SkipWhile(f, i + 1, S) ELSE i

\* index of the verb of the directive whose '%' is at f[i]
VerbAt(f, i) ==
    LET afterFlags == SkipWhile(f, i + 1, {32, 35, 43, 45, 48})
        afterWidth == SkipWhile(f, afterFlags, 48..57)
    IN  IF afterWidth <= Len(f) /\ f[afterWidth] = 46
        THEN SkipWhile(f, afterWidth + 1, 48..57)
        ELSE afterWidth

RECURSIVE PrintfFrom(_, _)
PrintfFrom(f, i) ==
    IF i > Len(f) THEN <<>>
    ELSE IF f[i] # 37 THEN <<f[i]>> \o PrintfFrom(f, i + 1)
    ELSE LET v == VerbAt(f, i)
         IN  IF v > Len(f) THEN <<37, 33, 40, 78, 79, 86, 69, 82, 66, 41>>  \* %!(NOVERB)
             ELSE IF f[v] = 37 THEN <<37>> \o PrintfFrom(f, v + 1)
             ELSE <<37, 33, f[v]>> \o <<40, 77, 73, 83, 83, 73, 78, 71, 41>>  \* %!v(MISSING)
                    \o PrintfFrom(f, v + 1)

GoErrorf(format) == PrintfFrom(format, 1)

\* the error runCommandInPath and runCommandWithOutput return when cmd.Run fails
RunCommandError(stderr) == GoErrorf(TrimSpace(stderr))

\* "pdftk error: "
PdftkPrefix == <<112, 100, 102, 116, 107, 32, 101, 114, 114, 111, 114, 58, 32>>

\* fmt.Errorf("pdftk error: %v", err)
PdftkError(stderr) == MkErr("ToolExecutionFailed", PdftkPrefix \o RunCommandError(stderr))

----------------------------------------------------------------------------
(* The environment of the operations *)

Procs == 1..NumCalls

Inputs == {"a.pdf", "b.pdf"}
Dests  == {"out.pdf"}
Paths  == Inputs \cup Dests

\* content of an input, of a destination that exists before the call, and the
\* documents pdftk may produce
InputDoc == <<73, 78>>
OldDoc == <<79, 76>>
ToolOutputs == { <<80, 49>>, <<80, 50>> }

\* what pdftk may write to standard error: texts over 'e', '%' and ' '
StderrTexts == SeqsUpTo({101, 37, 32}, MaxErrLen)

\* filepath.Abs
Abs(path) == <<"/cwd", path>>

\* the Form the Fill calls of the model pass: {"n": "Ann", "e-acute": true}
ProcForm ==
    (<<110>> :> [t |-> "string", s |-> <<65, 110, 110>>])
      @@ (<<195, 169>> :> [t |-> "bool", b |-> TRUE])

NoDir == [exists |-> FALSE, fdf |-> NoFile, out |-> NoFile]
NewDir == [exists |-> TRUE, fdf |-> NoFile, out |-> NoFile]

NoHist ==
    [spawned |-> 0,            \* subprocesses started
     scratch |-> FALSE,        \* a scratch directory or file was created
     failed |-> FALSE,         \* a step of the call failed
     envFault |-> FALSE,       \* ... because an I/O operation failed
     cleanupFault |-> FALSE,   \* the deferred removal failed
     e |-> "unset",            \* what exists(destPDFFile) reported
     exit |-> "none",          \* how cmd.Run ended
     stderr |-> <<>>,          \* what pdftk wrote to standard error
     out |-> <<>>,             \* the document pdftk produced
     argv |-> <<>>]            \* the arguments pdftk was run with

FillOps == {"Fill", "FillLegacy"}
StampOps == {"Multistamp", "MultistampLegacy"}

\* the calls a caller can make
CallsOf(o) ==
    IF o \in FillOps
        THEN [files : {<<p>> : p \in Inputs}, dest : Dests, overwrite : BOOLEAN]
    ELSE IF o = "FillPDFToBytes"
        THEN [files : {<<p>> : p \in Inputs}, dest : {"-"}, overwrite : {FALSE}]
    ELSE IF o \in StampOps
        THEN [files : {<<p, q>> : p \in Inputs, q \in Inputs}, dest : {"-"}, overwrite : {FALSE}]
    ELSE [files : SeqsUpTo(Inputs, MaxMergeFiles), dest : {"-"}, overwrite : {FALSE}]

AllOps == FillOps \cup StampOps \cup {"FillPDFToBytes", "Merge"}

NoArg == [files |-> <<>>, dest |-> "-", overwrite |-> FALSE]
NoLoc == [i |-> 1, args |-> <<>>]
NoRet == [err |-> NilErr, val |-> NilVal]

ProcInit ==
    /\ tool \in BOOLEAN
    /\ files \in [Paths -> {NoFile, FileOf(InputDoc), FileOf(OldDoc)}]
    /\ \A p \in Inputs : files[p] \in {NoFile, FileOf(InputDoc)}
    /\ \A p \in Dests : files[p] \in {NoFile, FileOf(OldDoc)}
    /\ files0 = files
    /\ tmp = [c \in Procs |-> NoDir]
    /\ work = [c \in Procs |-> NoFile]
    /\ pc = [c \in Procs |-> "idle"]
    /\ op = [c \in Procs |-> "none"]
    /\ arg = [c \in Procs |-> NoArg]
    /\ loc = [c \in Procs |-> NoLoc]
    /\ ret = [c \in Procs |-> NoRet]
    /\ hist = [c \in Procs |-> NoHist]

----------------------------------------------------------------------------
(* Steps of a call.  A call that returns after its defer statement ran goes *)
(* through "defer", where the deferred function runs, to "done".            *)

Goto(c, where) == pc' = [pc EXCEPT ![c] = where]

Return(c, err, val, deferred) ==
    /\ ret' = [ret EXCEPT ![c] = [err |-> err, val |-> val]]
    /\ Goto(c, IF deferred THEN "defer" ELSE "done")

Failed(c) == hist' = [hist EXCEPT ![c].failed = TRUE]

Fault(c) == hist' = [hist EXCEPT ![c].failed = TRUE, ![c].envFault = TRUE]

\* (Fill without the look-up of pdftk)
FirstStepNoLookPath(o) ==
    IF o = "Multistamp" THEN "lookPath"
    ELSE IF o = "FillPDFToBytes" THEN "getID"
    ELSE "getAbs"

\* the first statement of each operation
FirstStep(o) ==
    IF o \in FillOps \/ o = "Multistamp" THEN "lookPath"
    ELSE IF o = "FillPDFToBytes" THEN "getID"
    ELSE "getAbs"

Call(c, ops) ==
    /\ pc[c] = "idle"
    /\ \E o \in ops : \E a \in CallsOf(o) :
         /\ op' = [op EXCEPT ![c] = o]
         /\ arg' = [arg EXCEPT ![c] = a]
         /\ Goto(c, IF FirstStep(o) = "getAbs" /\ a.files = <<>> THEN "tempDir"
                    ELSE FirstStep(o))
    /\ UNCHANGED <<tool, files, files0, tmp, work, loc, ret, hist>>

\* exec.LookPath("pdftk")
LookPath(c) ==
    /\ pc[c] = "lookPath"
    /\ IF tool
       THEN /\ Goto(c, IF op[c] = "MultistampLegacy" THEN "tempDir" ELSE "getAbs")
            /\ UNCHANGED <<ret, hist>>
       ELSE /\ Return(c, MkErr("ToolNotFound", <<>>), NilVal, FALSE)
            /\ Failed(c)
    /\ UNCHANGED <<tool, files, files0, tmp, work, op, arg, loc>>

\* what a failed getAbs makes the operation return
GetAbsFailure(o, kind) ==
    IF o = "MultistampLegacy" THEN NilErr ELSE MkErr(kind, <<>>)

\* getAbs(arg.files[i]): the next input is resolved and checked to exist.
\* os.Stat may fail otherwise than with "not exist" for a path that is there.
GetAbs(c) ==
    /\ pc[c] = "getAbs"
    /\ LET p == arg[c].files[loc[c].i]
           last == loc[c].i = Len(arg[c].files)
       IN  \/ /\ files[p].exists
              /\ loc' = [loc EXCEPT ![c] = [i |-> @.i + 1, args |-> Append(@.args, Abs(p))]]
              /\ Goto(c, IF ~last THEN "getAbs"
                         ELSE IF op[c] = "MultistampLegacy" THEN "lookPath"
                         ELSE "tempDir")
              /\ UNCHANGED <<ret, hist>>
           \/ /\ ~files[p].exists
              /\ Return(c, GetAbsFailure(op[c], "InputNotFound"), NilVal, FALSE)
              /\ Failed(c)
              /\ UNCHANGED loc
           \/ /\ files[p].exists
              /\ Return(c, GetAbsFailure(op[c], "IOFailure"), NilVal, FALSE)
              /\ Fault(c)
              /\ UNCHANGED loc
    /\ UNCHANGED <<tool, files, files0, tmp, work, op, arg>>

\* ioutil.TempDir("", "fillpdf-"), and the defer statement after it
TempDir(c) ==
    /\ pc[c] = "tempDir"
    /\ \/ /\ tmp' = [tmp EXCEPT ![c] = NewDir]
          /\ hist' = [hist EXCEPT ![c].scratch = TRUE]
          /\ Goto(c, IF op[c] \in FillOps THEN "createFdf" ELSE "run")
          /\ UNCHANGED ret
       \/ /\ Return(c, MkErr("IOFailure", <<>>), NilVal, FALSE)
          /\ Fault(c)
          /\ UNCHANGED tmp
    /\ UNCHANGED <<tool, files, files0, work, op, arg, loc>>

\* GetID("pdf_"), and the defer statement after it
GetID(c) ==
    /\ pc[c] = "getID"
    /\ \/ /\ Goto(c, "createFdf")
          /\ UNCHANGED <<ret, hist>>
       \/ /\ Return(c, MkErr("IOFailure", <<>>), NilVal, FALSE)
          /\ Fault(c)
    /\ UNCHANGED <<tool, files, files0, tmp, work, op, arg, loc>>

\* the data file bytes createFdfFile writes for ProcForm, per revision
ProcFdfContents(o) ==
    IF o = "FillLegacy"
    THEN { FdfContentLegacy(LoopPairsLegacy(ProcForm, order), iconv) :
             order \in Perms(DOMAIN ProcForm), iconv \in {"BE", "LE", "openFails"} }
    ELSE { FdfContent(LoopPairs(ProcForm, order, LabelYes, LabelOff)) :
             order \in Perms(DOMAIN ProcForm) }

\* createFdfFile(form, fdfFile, ...) of Fill and of FillPDFToBytes
CreateFdf(c) ==
    /\ pc[c] = "createFdf"
    /\ \E outcome \in {"ok", "createFails", "flushFails"} :
       \E data \in ProcFdfContents(op[c]) :
       \E onDisk \in (IF outcome = "ok" THEN {data}
                       ELSE IF outcome = "createFails" THEN {<<>>}
                       ELSE ShortWrites(data)) :
         LET f == IF outcome = "createFails" THEN NoFile ELSE FileOf(onDisk)
         IN  /\ IF op[c] = "FillPDFToBytes"
                THEN work' = [work EXCEPT ![c] = f] /\ UNCHANGED tmp
                ELSE tmp' = [tmp EXCEPT ![c].fdf = f] /\ UNCHANGED work
             /\ hist' = [hist EXCEPT ![c].scratch = @ \/ outcome # "createFails",
                                     ![c].failed = @ \/ outcome # "ok",
                                     ![c].envFault = @ \/ outcome # "ok"]
             /\ IF outcome = "ok"
                THEN Goto(c, "run") /\ UNCHANGED ret
                ELSE Return(c, MkErr("IOFailure", <<>>), NilVal, TRUE)
    /\ UNCHANGED <<tool, files, files0, op, arg, loc>>

\* the scratch paths of a call
\* the directory ioutil.TempDir("", "fillpdf-") creates for call c
TmpDirName(c) == <<"/tmp/fillpdf-", c>>

OutputFile(c) ==
    IF op[c] = "Merge" THEN <<"/tmp/fillpdf-", c, "<unix time>.pdf">>
    ELSE IF op[c] = "FillPDFToBytes" THEN "-"
    ELSE <<"/tmp/fillpdf-", c, "output.pdf">>

FdfPath(c) ==
    IF op[c] = "FillPDFToBytes" THEN <<"tmpDir", c, "pdf__id.fdf">>
    ELSE <<"/tmp/fillpdf-", c, "data.fdf">>

\* (the resolved inputs of Merge in the reverse of the caller's order)
ArgvReversed(c) ==
    [i \in 1..Len(loc[c].args) |-> loc[c].args[Len(loc[c].args) + 1 - i]]
        \o <<"cat", "output", OutputFile(c)>>

\* the pdftk command line arguments
Argv(c) ==
    IF op[c] \in FillOps
        THEN <<loc[c].args[1], "fill_form", FdfPath(c), "output", OutputFile(c), "flatten">>
    ELSE IF op[c] = "FillPDFToBytes"
        THEN <<arg[c].files[1], "fill_form", FdfPath(c), "output", "-", "flatten">>
    ELSE IF op[c] \in StampOps
        THEN <<loc[c].args[1], "multistamp", loc[c].args[2], "output", OutputFile(c)>>
    ELSE loc[c].args \o <<"cat", "output", OutputFile(c)>>

\* pdftk can exit zero only when it has an input and every input is there
CanSucceed(c) == arg[c].files # <<>> /\ \A i \in DOMAIN arg[c].files : files[arg[c].files[i]].exists

\* runCommandInPath / runCommandWithOutput: cmd.Run() and what follows it.
\* Without pdftk on the path cmd.Run fails before a process is started.
Run(c) ==
    /\ pc[c] = "run"
    /\ \/ /\ ~tool
          /\ hist' = [hist EXCEPT ![c].exit = "nostart", ![c].failed = TRUE,
                                  ![c].argv = Argv(c)]
          /\ Return(c, PdftkError(<<>>), NilVal, TRUE)
          /\ UNCHANGED tmp
       \/ /\ tool /\ CanSucceed(c)
          /\ \E out \in ToolOutputs :
               /\ hist' = [hist EXCEPT ![c].spawned = @ + 1, ![c].exit = "zero",
                                       ![c].out = out, ![c].argv = Argv(c)]
               /\ IF op[c] = "FillPDFToBytes"
                  THEN Return(c, NilErr, ValOf(out), TRUE) /\ UNCHANGED tmp
                  ELSE /\ tmp' = [tmp EXCEPT ![c].out = FileOf(out)]
                       /\ Goto(c, IF op[c] \in FillOps THEN "exists" ELSE "readFile")
                       /\ UNCHANGED ret
       \/ /\ tool
          /\ \E stderr \in StderrTexts :
               /\ hist' = [hist EXCEPT ![c].spawned = @ + 1, ![c].exit = "nonzero",
                                       ![c].stderr = stderr, ![c].failed = TRUE,
                                       ![c].argv = Argv(c)]
               /\ Return(c, PdftkError(stderr), NilVal, TRUE)
          /\ UNCHANGED tmp
    /\ UNCHANGED <<tool, files, files0, work, op, arg, loc>>

\* (the destination replaced whether or not the caller allowed it)
DestActionNoCheck(e, overwrite) == IF e THEN "remove" ELSE "copy"

\* what Fill does about the destination, e telling whether it exists
DestAction(e, overwrite) ==
    IF e THEN (IF ~overwrite THEN "refuse" ELSE "remove") ELSE "copy"

\* exists(destPDFFile) and the overwrite test
Exists(c) ==
    /\ pc[c] = "exists"
    /\ \/ LET e == files[arg[c].dest].exists
              act == DestAction(e, arg[c].overwrite)
          IN  IF act = "refuse"
              THEN /\ Return(c, MkErr("DestinationExists", <<>>), NilVal, TRUE)
                   /\ hist' = [hist EXCEPT ![c].failed = TRUE, ![c].e = "true"]
              ELSE /\ Goto(c, act)
                   /\ hist' = [hist EXCEPT ![c].e = IF e THEN "true" ELSE "false"]
                   /\ UNCHANGED ret
       \/ /\ files[arg[c].dest].exists
          /\ Return(c, MkErr("IOFailure", <<>>), NilVal, TRUE)
          /\ Fault(c)
    /\ UNCHANGED <<tool, files, files0, tmp, work, op, arg, loc>>

\* os.Remove(destPDFFile): it fails when the file is gone, and may fail otherwise
Remove(c) ==
    /\ pc[c] = "remove"
    /\ \/ /\ files[arg[c].dest].exists
          /\ files' = [files EXCEPT ![arg[c].dest] = NoFile]
          /\ Goto(c, "copy")
          /\ UNCHANGED <<ret, hist>>
       \/ /\ files[arg[c].dest].exists
          /\ Return(c, MkErr("IOFailure", <<>>), NilVal, TRUE)
          /\ Fault(c)
          /\ UNCHANGED files
       \/ /\ ~files[arg[c].dest].exists
          /\ Return(c, MkErr("IOFailure", <<>>), NilVal, TRUE)
          /\ Failed(c)
          /\ UNCHANGED files
    /\ UNCHANGED <<tool, files0, tmp, work, op, arg, loc>>

StrictPrefixes(data) == { SubSeq(data, 1, k) : k \in 0..(Len(data) - 1) }

\* the file at dst after copyFile(src, dst), src holding data
CopyFile(dst, data, outcome, part) ==
    IF outcome \in {"openFails", "createFails"} THEN dst
    ELSE IF outcome = "copyFails" THEN FileOf(part)
    ELSE FileOf(data)

\* copyFile(outputFile, destPDFFile)
Copy(c) ==
    /\ pc[c] = "copy"
    /\ \E outcome \in {"ok", "openFails", "createFails", "copyFails", "syncFails"} :
       \E part \in StrictPrefixes(tmp[c].out.data) :
         /\ files' = [files EXCEPT ![arg[c].dest] =
                          CopyFile(@, tmp[c].out.data, outcome, part)]
         /\ IF outcome = "ok"
            THEN Return(c, NilErr, NilVal, TRUE) /\ UNCHANGED hist
            ELSE Return(c, MkErr("IOFailure", <<>>), NilVal, TRUE) /\ Fault(c)
    /\ UNCHANGED <<tool, files0, tmp, work, op, arg, loc>>

\* ioutil.ReadFile(outputFile) of Multistamp and Merge
ReadFile(c) ==
    /\ pc[c] = "readFile"
    /\ \/ /\ Return(c, NilErr, ValOf(tmp[c].out.data), TRUE)
          /\ UNCHANGED hist
       \/ /\ Return(c, MkErr("IOFailure", <<>>), NilVal, TRUE)
          /\ Fault(c)
    /\ UNCHANGED <<tool, files, files0, tmp, work, op, arg, loc>>

\* the deferred function: os.RemoveAll(tmpDir), or os.Remove(fdfFile) in
\* FillPDFToBytes; in the earlier Fill the defer statement is commented out.
\* An error of the removal is dropped or logged.
Defer(c) ==
    /\ pc[c] = "defer"
    /\ IF op[c] = "FillLegacy"
       THEN UNCHANGED <<tmp, work, hist>>
       ELSE IF op[c] = "FillPDFToBytes"
       THEN /\ UNCHANGED tmp
            /\ \/ work' = [work EXCEPT ![c] = NoFile] /\ UNCHANGED hist
               \/ /\ work[c].exists
                  /\ hist' = [hist EXCEPT ![c].cleanupFault = TRUE]
                  /\ UNCHANGED work
       ELSE /\ UNCHANGED work
            /\ \/ tmp' = [tmp EXCEPT ![c] = NoDir] /\ UNCHANGED hist
               \/ /\ hist' = [hist EXCEPT ![c].cleanupFault = TRUE]
                  /\ UNCHANGED tmp
    /\ Goto(c, "done")
    /\ UNCHANGED <<tool, files, files0, op, arg, loc, ret>>

ProcIdle ==
    /\ tool = FALSE /\ files = <<>> /\ files0 = <<>> /\ tmp = <<>> /\ work = <<>>
    /\ pc = <<>> /\ op = <<>> /\ arg = <<>> /\ loc = <<>> /\ ret = <<>> /\ hist = <<>>

PureIdle == UNCHANGED <<encVars, fdfVars>>

\* one call of any operation, from any state of the caller's files
Next ==
    \/ Call(1, AllOps) /\ PureIdle
    \/ LookPath(1) /\ PureIdle
    \/ GetAbs(1) /\ PureIdle
    \/ TempDir(1) /\ PureIdle
    \/ GetID(1) /\ PureIdle
    \/ CreateFdf(1) /\ PureIdle
    \/ Run(1) /\ PureIdle
    \/ Exists(1) /\ PureIdle
    \/ Remove(1) /\ PureIdle
    \/ Copy(1) /\ PureIdle
    \/ ReadFile(1) /\ PureIdle
    \/ Defer(1) /\ PureIdle

\* the operations of fillpdf.go and merge.go, NumCalls calls at a time
ConcOps == {"Fill", "FillPDFToBytes", "Merge"}

ConcNext ==
    \/ \E c \in Procs : Call(c, ConcOps) /\ PureIdle
    \/ \E c \in Procs : LookPath(c) /\ PureIdle
    \/ \E c \in Procs : GetAbs(c) /\ PureIdle
    \/ \E c \in Procs : TempDir(c) /\ PureIdle
    \/ \E c \in Procs : GetID(c) /\ PureIdle
    \/ \E c \in Procs : CreateFdf(c) /\ PureIdle
    \/ \E c \in Procs : Run(c) /\ PureIdle
    \/ \E c \in Procs : Exists(c) /\ PureIdle
    \/ \E c \in Procs : Remove(c) /\ PureIdle
    \/ \E c \in Procs : Copy(c) /\ PureIdle
    \/ \E c \in Procs : ReadFile(c) /\ PureIdle
    \/ \E c \in Procs : Defer(c) /\ PureIdle

----------------------------------------------------------------------------
(* Specifications *)

EncIdle == s = <<>> /\ addBom = FALSE /\ bytes = <<>> /\ encPc = "idle"

FdfIdle ==
    /\ form = <<>> /\ checkedString = <<>> /\ uncheckedString = <<>>
    /\ fdfRev = "current" /\ written = <<>> /\ fdfFile = NoFile
    /\ fdfErr = "nil" /\ fdfPc = "idle"

EncNext == EncodeUTF16Call /\ UNCHANGED <<fdfVars, procVars>>

InitEnc == EncInit /\ FdfIdle /\ ProcIdle

SpecEnc == InitEnc /\ [][EncNext]_vars

FdfNext ==
    \/ CreateFdfFileCall /\ UNCHANGED <<encVars, procVars>>
    \/ CreateFdfFileLegacyCall /\ UNCHANGED <<encVars, procVars>>

InitFdf == FdfInit /\ EncIdle /\ ProcIdle

SpecFdf == InitFdf /\ [][FdfNext]_vars

Init == ProcInit /\ EncIdle /\ FdfIdle

Spec == Init /\ [][Next]_vars

\* concurrent calls, with pdftk installed and the input documents in place
InitConc ==
    /\ ProcInit /\ EncIdle /\ FdfIdle
    /\ tool
    /\ \A p \in Inputs : files[p].exists

SpecConc == InitConc /\ [][ConcNext]_vars

----------------------------------------------------------------------------
(* Reference definitions the properties are stated with: big-endian UTF-16  *)
(* decoding and UTF-8 encoding as the Unicode standard defines them, and    *)
(* decimal parsing.                                                         *)

RECURSIVE RefUnits(_)
RefUnits(b) ==
    IF Len(b) < 2 THEN <<>>
    ELSE <<b[1] * 256 + b[2]>> \o RefUnits(SubSeq(b, 3, Len(b)))

RECURSIVE RefCodePoints(_)
RefCodePoints(u) ==
    IF u = <<>> THEN <<>>
    ELSE IF Len(u) >= 2 /\ u[1] \in 55296..56319 /\ u[2] \in 56320..57343
        THEN <<65536 + (u[1] - 55296) * 1024 + (u[2] - 56320)>>
                \o RefCodePoints(SubSeq(u, 3, Len(u)))
    ELSE <<u[1]>> \o RefCodePoints(Tail(u))

RefUtf8Of(cp) ==
    IF cp < 128 THEN <<cp>>
    ELSE IF cp < 2048 THEN <<192 + (cp \div 64), 128 + (cp % 64)>>
    ELSE IF cp < 65536
        THEN <<224 + (cp \div 4096), 128 + ((cp \div 64) % 64), 128 + (cp % 64)>>
    ELSE <<240 + (cp \div 262144), 128 + ((cp \div 4096) % 64),
           128 + ((cp \div 64) % 64), 128 + (cp % 64)>>

RECURSIVE RefUtf8(_)
RefUtf8(cps) == IF cps = <<>> THEN <<>> ELSE RefUtf8Of(Head(cps)) \o RefUtf8(Tail(cps))

\* b is the big-endian UTF-16 form of the text: decoding b yields the text
DecodesTo(b, text) ==
    /\ Len(b) % 2 = 0
    /\ RefUtf8(RefCodePoints(RefUnits(b))) = text

\* 16-bit units of a well-formed text: one per character, two per 4-byte character
U16Len(text) ==
    Cardinality({i \in DOMAIN text : ~IsCont(text[i])})
      + Cardinality({i \in DOMAIN text : text[i] >= 240})

\* b starts with the mark 0xFE 0xFF, and the rest decodes to the text
MarkedUtf16Of(b, text) ==
    /\ Len(b) = 2 + 2 * U16Len(text)
    /\ SubSeq(b, 1, 2) = <<254, 255>>
    /\ DecodesTo(SubSeq(b, 3, Len(b)), text)

RECURSIVE RefParseDigits(_)
RefParseDigits(d) ==
    IF d = <<>> THEN 0 ELSE 10 * RefParseDigits(SubSeq(d, 1, Len(d) - 1)) + (d[Len(d)] - 48)

IsDecimalOf(txt, n) ==
    LET digits == IF n < 0 THEN Tail(txt) ELSE txt
    IN  /\ txt # <<>>
        /\ (n < 0) = (txt[1] = 45)
        /\ digits # <<>>
        /\ \A i \in DOMAIN digits : digits[i] \in 48..57
        /\ (Len(digits) > 1 => digits[1] # 48)
        /\ RefParseDigits(digits) = (IF n < 0 THEN 0 - n ELSE n)

\* rest is one record per pair, in order, and then the footer
RECURSIVE MatchRecords(_, _)
MatchRecords(rest, recs) ==
    IF recs = <<>> THEN rest = FdfFooter
    ELSE LET nl == 2 + 2 * U16Len(recs[1][1])
             vl == 2 + 2 * U16Len(recs[1][2])
             o1 == Len(RecOpen)
             o2 == o1 + nl
             o3 == o2 + Len(RecMid)
             o4 == o3 + vl
             o5 == o4 + Len(RecClose)
         IN  /\ Len(rest) >= o5
             /\ SubSeq(rest, 1, o1) = RecOpen
             /\ MarkedUtf16Of(SubSeq(rest, o1 + 1, o2), recs[1][1])
             /\ SubSeq(rest, o2 + 1, o3) = RecMid
             /\ MarkedUtf16Of(SubSeq(rest, o3 + 1, o4), recs[1][2])
             /\ SubSeq(rest, o4 + 1, o5) = RecClose
             /\ MatchRecords(SubSeq(rest, o5 + 1, Len(rest)), Tail(recs))

\* the file is the header, one record per pair, the footer
FileHolds(file, recs) ==
    /\ file.exists
    /\ Len(file.data) >= Len(FdfHeader)
    /\ SubSeq(file.data, 1, Len(FdfHeader)) = FdfHeader
    /\ MatchRecords(SubSeq(file.data, Len(FdfHeader) + 1, Len(file.data)), recs)

FdfWritten == fdfPc = "done" /\ fdfErr = "nil" /\ fdfRev = "current"

----------------------------------------------------------------------------
(* C6: for a Form of N entries the file createFdfFile writes is the fixed   *)
(* header, exactly N records (one per entry, each holding the entry's name  *)
(* and its rendered value, each big-endian UTF-16 behind its own 0xFE 0xFF  *)
(* mark) and the fixed footer; for N = 0 it is the header and the footer.   *)
ThmC6_FdfRecords ==
    FdfWritten =>
        /\ Len(written) = Cardinality(DOMAIN form)
        /\ \A k \in DOMAIN form : \E i \in DOMAIN written : written[i][1] = k
        /\ FileHolds(fdfFile, written)
        /\ (DOMAIN form = {} => fdfFile.data = FdfHeader \o FdfFooter)

WitC6_TwoRecords ==
    /\ FdfWritten
    /\ Cardinality(DOMAIN form) = 2
    /\ <<240, 159, 152, 128>> \in DOMAIN form
    /\ Len(fdfFile.data) > Len(FdfHeader) + Len(FdfFooter)

(* C7: true is rendered as the caller's checked label, false as the         *)
(* unchecked label, any other value as its natural text, also when that     *)
(* text is "true"; the file holds these renderings.  (The earlier revision  *)
(* takes no labels from the caller: it writes Yes and Off.)                 *)
RenderedAsClaimed(v, txt, checked, unchecked) ==
    /\ (v.t = "bool" /\ v.b) => txt = checked
    /\ (v.t = "bool" /\ ~v.b) => txt = unchecked
    /\ v.t = "string" => txt = v.s
    /\ v.t = "int" => IsDecimalOf(txt, v.n)

----------------------------------------------------------------------------
(* The operations: what the properties speak of *)

Done(c) == pc[c] = "done"
IsFill(c) == op[c] \in FillOps
Dest(c) == files[arg[c].dest]
Dest0(c) == files0[arg[c].dest]
Produced(c) == FileOf(hist[c].out)
Succeeded(c) == ret[c].err = NilErr
ErrKind(c) == ret[c].err.kind

(* C1 as stated: a Fill call on a destination that exists fails with the    *)
(* destination-exists error and leaves the file alone when overwrite is     *)
(* false, and succeeds with the destination holding exactly the produced    *)
(* output when overwrite is true.                                           *)
OrigC1_ExistingDest ==
    \A c \in Procs : (Done(c) /\ IsFill(c) /\ Dest0(c).exists) =>
        IF ~arg[c].overwrite
        THEN ErrKind(c) = "DestinationExists" /\ Dest(c) = Dest0(c)
        ELSE Succeeded(c) /\ Dest(c) = Produced(c)

(* C1 amended: a Fill call that gets as far as finding its destination      *)
(* present (the tool is there, the source exists, pdftk exited zero, the    *)
(* stat succeeded) fails with the destination-exists error and leaves the   *)
(* file alone when overwrite is false; when overwrite is true it either     *)
(* succeeds, the destination then holding exactly the produced output, or   *)
(* fails with the I/O error of the removal or of the copy.                  *)
ThmC1_ExistingDest ==
    \A c \in Procs : (Done(c) /\ IsFill(c) /\ hist[c].e = "true") =>
        IF ~arg[c].overwrite
        THEN ErrKind(c) = "DestinationExists" /\ Dest(c) = Dest0(c)
        ELSE /\ ErrKind(c) \in {"nil", "IOFailure"}
             /\ Succeeded(c) => (Dest(c) = Produced(c) /\ Dest(c) # Dest0(c))
             /\ Succeeded(c) <=> ~hist[c].envFault

WitC1_Overwritten ==
    \E c \in Procs :
        /\ Done(c) /\ op[c] = "Fill" /\ hist[c].e = "true" /\ arg[c].overwrite
        /\ Succeeded(c)
        /\ Dest0(c) = FileOf(OldDoc)
        /\ Dest(c) = Produced(c)

OrigC3_ScratchRemoved ==
    \A c \in Procs : (Done(c) /\ ~hist[c].cleanupFault) =>
        (~tmp[c].exists /\ ~work[c].exists)

(* C4 as stated: when a Fill call returns, either it succeeded and the      *)
(* destination holds the complete output, or it failed and the destination  *)
(* is neither partial nor lost: a destination that existed is as it was,    *)
(* one that did not is absent or complete.                                  *)
OrigC4_AtomicDest ==
    \A c \in Procs : (Done(c) /\ IsFill(c)) =>
        IF Succeeded(c)
        THEN Dest(c) = Produced(c)
        ELSE IF Dest0(c).exists
        THEN Dest(c) = Dest0(c)
        ELSE (~Dest(c).exists \/ Dest(c) = Produced(c))

(* C5 as stated: a call in which a step failed returns a non-nil error, no  *)
(* Multistamp or Merge call returns a nil error with a nil result, and      *)
(* pdftk is started at most once.                                           *)
OrigC5_FailureSurfaced ==
    \A c \in Procs : Done(c) =>
        /\ hist[c].failed => ~Succeeded(c)
        /\ op[c] \in StampOps \cup {"Merge"} => ~(Succeeded(c) /\ ret[c].val.nil)
        /\ hist[c].spawned <= 1

(* C9 as stated: no two calls share a scratch file, and when all calls have *)
(* returned (no I/O operation having failed) their results and the final    *)
(* files are those of running them one after another in some order.         *)
RefSeqFill(c, fs) ==
    IF op[c] \in FillOps /\ hist[c].exit = "zero"
    THEN IF fs[arg[c].dest].exists /\ ~arg[c].overwrite
         THEN [err |-> "DestinationExists", fs |-> fs]
         ELSE [err |-> "nil", fs |-> [fs EXCEPT ![arg[c].dest] = Produced(c)]]
    ELSE [err |-> ErrKind(c), fs |-> fs]

RECURSIVE RefSerial(_, _, _)
RefSerial(order, i, fs) ==
    IF i > Len(order) THEN fs = files
    ELSE LET o == RefSeqFill(order[i], fs)
         IN  o.err = ErrKind(order[i]) /\ RefSerial(order, i + 1, o.fs)

OrigC9_Serializable ==
    /\ \A c, d \in Procs : (c # d /\ pc[c] # "idle" /\ pc[d] # "idle") =>
           (FdfPath(c) # FdfPath(d) /\ <<c, OutputFile(c)>> # <<d, OutputFile(d)>>)
    /\ ((\A c \in Procs : Done(c) /\ ~hist[c].envFault) =>
           \E order \in Perms(Procs) : RefSerial(order, 1, files0))

(* C10 as stated: when pdftk exits non-zero the error detail is its         *)
(* standard-error text, verbatim but for the white space trimmed at both    *)
(* ends.                                                                    *)
RefIsSpace(b) == b \in {9, 10, 11, 12, 13, 32}

RefTrimmed(text, d) ==
    \E i \in 1..(Len(text) + 1) : \E j \in 0..Len(text) :
        /\ d = SubSeq(text, i, j)
        /\ \A k \in 1..(i - 1) : RefIsSpace(text[k])
        /\ \A k \in (j + 1)..Len(text) : RefIsSpace(text[k])
        /\ d # <<>> => (~RefIsSpace(d[1]) /\ ~RefIsSpace(d[Len(d)]))

OrigC10_StderrVerbatim ==
    \A c \in Procs : (Done(c) /\ hist[c].exit = "nonzero") =>
        \E d \in StderrTexts :
            /\ RefTrimmed(hist[c].stderr, d)
            /\ ret[c].err.msg = <<112, 100, 102, 116, 107, 32, 101, 114, 114, 111, 114, 58, 32>> \o d

(* C11: Merge runs pdftk at most once per call, and only after every input  *)
(* path was found to exist and resolved to an absolute path; the arguments  *)
(* are the resolved inputs in the caller's order, duplicates kept, followed *)
(* by cat output <a file inside the call's scratch directory>; when an      *)
(* input is missing no subprocess is started, no scratch directory is       *)
(* created, and the call does not succeed.                                  *)
ThmC11_MergeArgv ==
    \A c \in Procs : op[c] = "Merge" =>
        LET fs == arg[c].files
            n == Len(fs)
            argv == hist[c].argv
            ran == hist[c].exit # "none"
            missing == \E i \in DOMAIN fs : ~files[fs[i]].exists
        IN  /\ hist[c].spawned <= 1
            /\ ran =>
                  /\ \A i \in DOMAIN fs : files[fs[i]].exists
                  /\ hist[c].scratch
                  /\ Len(argv) = n + 3
                  /\ \A i \in DOMAIN fs : argv[i] = Abs(fs[i])
                  /\ SubSeq(argv, n + 1, n + 2) = <<"cat", "output">>
                  /\ Len(argv[n + 3]) = 3
                  /\ SubSeq(argv[n + 3], 1, 2) = TmpDirName(c)
            /\ missing =>
                  /\ hist[c].spawned = 0 /\ ~ran
                  /\ ~hist[c].scratch /\ tmp[c] = NoDir
                  /\ Done(c) => ~Succeeded(c)

WitC11_TwoInputsInOrder ==
    \E c \in Procs :
        /\ Done(c) /\ op[c] = "Merge" /\ Succeeded(c)
        /\ arg[c].files = <<"b.pdf", "a.pdf">>
        /\ hist[c].spawned = 1
        /\ hist[c].argv[1] = Abs("b.pdf") /\ hist[c].argv[2] = Abs("a.pdf")

====
